---- MODULE Spec2Model ----
(***************************************************************************)
(* A model of daylily_omics_references.manager.ReferenceBucketManager:     *)
(* clone_reference_bucket, verify_bucket and ensure_bucket over the        *)
(* storage service (boto3/session.py S3Client) and the external copy tool. *)
(***************************************************************************)
EXTENDS Integers, Sequences, FiniteSets, TLC

(***************************************************************************)
(* constants.py                                                            *)
(***************************************************************************)
DEFAULT_REFERENCE_VERSION == "0.7.131c"

SOURCE_BUCKET_BY_VERSION ==
    (DEFAULT_REFERENCE_VERSION :> "daylily-omics-analysis-references-public")

CORE_PREFIXES ==
    << "cluster_boot_config/",
       "data/cached_envs/",
       "data/libs/",
       "data/tool_specific_resources/",
       "data/budget_tags/" >>

HG38_PREFIXES ==
    << "data/genomic_data/organism_references/H_sapiens/hg38/",
       "data/genomic_data/organism_annotations/H_sapiens/hg38/" >>

B37_PREFIXES ==
    << "data/genomic_data/organism_references/H_sapiens/b37/",
       "data/genomic_data/organism_annotations/H_sapiens/b37/" >>

GIAB_PREFIXES ==
    << "data/genomic_data/organism_reads/" >>

VERSION_INFO_KEY == "s3_reference_data_version.info"

(***************************************************************************)
(* Bounds and the input sets the actions draw from.                        *)
(***************************************************************************)
\* The longest sequence of calls made on one manager.
MaxCalls == 3

\* A bucket present before the first call lacks at most this many of the
\* catalog's prefixes (or holds no object at all).
MaxMissing == 1

Regions == {"us-east-1", "us-west-2"}

BucketPrefixes == {"acme"}

\* One supported and one unsupported version string.
InputVersions == {DEFAULT_REFERENCE_VERSION, "0.6.0"}

LogFiles == {"", "clone.log"}

Range(s) == {s[i] : i \in DOMAIN s}

AllPrefixes ==
    Range(CORE_PREFIXES) \cup Range(HG38_PREFIXES) \cup Range(B37_PREFIXES)
        \cup Range(GIAB_PREFIXES)

(***************************************************************************)
(* Object keys and bodies.  A key is <<prefix, name>>; no catalog prefix   *)
(* is a prefix of another one or of the marker key, so key.startswith(p)   *)
(* is equality of the first component.  A body is a sequence of chunks of  *)
(* text; the chunks of Whitespace are what str.strip() removes.            *)
(***************************************************************************)
MarkerKey == << "", VERSION_INFO_KEY >>

DataKey(prefix) == << prefix, "dummy" >>

StartsWith(key, prefix) == key[1] = prefix

Whitespace == {" ", "\n", "\t"}

\* version.encode("utf-8")
Encode(version) == << version >>

RECURSIVE LStrip(_)
LStrip(body) ==
    IF body # << >> /\ Head(body) \in Whitespace THEN LStrip(Tail(body)) ELSE body

RECURSIVE RStrip(_)
RStrip(body) ==
    IF body # << >> /\ body[Len(body)] \in Whitespace
    THEN RStrip(SubSeq(body, 1, Len(body) - 1))
    ELSE body

RECURSIVE Join(_)
Join(body) == IF body = << >> THEN "" ELSE Head(body) \o Join(Tail(body))

\* body.read().decode("utf-8").strip()
DecodeStrip(body) == Join(RStrip(LStrip(body)))

EmptyObjects == [k \in {} |-> << >>]


(***************************************************************************)
(* State.                                                                  *)
(*   buckets       the storage service: bucket name -> [home, accel,       *)
(*                 objects]; home is the region the bucket lives in        *)
(*   region        ReferenceBucketManager.region                           *)
(*   s3_client     the manager's active client, named by the region it is  *)
(*                 scoped to                                               *)
(*   client_requests  clients requested from the session after __init__    *)
(*   call, pc, idx    the running call's parameters, its position in the   *)
(*                 handler and the index of the next planned copy          *)
(*   log           the storage-service and copy-executor calls the running *)
(*                 call has made, in order                                 *)
(*   log_written   the lines the running call appended to its log file     *)
(*   result        how the call ended                                      *)
(*   at_call       buckets as they were when the call began                *)
(*   calls, prev   number of calls begun; summary of the call before       *)
(*   clone_args    the keyword arguments of the running                    *)
(*                 clone_reference_bucket, called directly or by           *)
(*                 ensure_bucket                                           *)
(*   faults        the storage operations that answer with a ClientError,  *)
(*                 and the error code of each (botocore Stubber responses) *)
(*   other         a second manager, in another process, working against   *)
(*                 the same storage service: its call, position, calls     *)
(*                 made and outcome; raced says that it probed after this  *)
(*                 manager's probe and before the bucket was created       *)
(***************************************************************************)
VARIABLES buckets, region, s3_client, client_requests,
          call, pc, idx, log, log_written, result, at_call, calls, prev,
          clone_args, faults, other

vars == << buckets, region, s3_client, client_requests,
           call, pc, idx, log, log_written, result, at_call, calls, prev,
           clone_args, faults, other >>

NoFaults == [api \in {} |-> ""]

\* the storage service answers this operation with a ClientError
Faulty(api) == api \in DOMAIN faults

\* the derived name with another infix
BucketName_references(bucket_prefix, rgn) ==
    bucket_prefix \o "-omics-references-" \o rgn

(***************************************************************************)
(* manager.py:272, :386  the derived bucket name                           *)
(***************************************************************************)
BucketName(bucket_prefix, rgn) == bucket_prefix \o "-omics-analysis-" \o rgn

Names == {BucketName(bp, r) : bp \in BucketPrefixes, r \in Regions}

NoResult == [kind |-> "none", value |-> "", issues |-> << >>]

Return(value) == [kind |-> "return", value |-> value, issues |-> << >>]

\* raise ValueError(msg) / RuntimeError(msg) / a propagated ClientError(code)
Raise(kind, msg) == [kind |-> kind, value |-> msg, issues |-> << >>]

\* BucketVerificationError(bucket, issues)   manager.py:29-36
BucketVerificationError(bucket, issues) ==
    [kind |-> "BucketVerificationError", value |-> bucket, issues |-> issues]

(***************************************************************************)
(* The storage service (boto3/session.py S3Client), seen through a client  *)
(* scoped to one region.                                                   *)
(***************************************************************************)
S3Call(api, client, bucket, key) ==
    [api |-> api, client |-> client, bucket |-> bucket, key |-> key]

\* head_bucket: the stub's 404 for an unknown bucket; the permanent
\* redirect of tests/test_manager.py when the bucket lives in another
\* region than the client is scoped to.
HeadBucket(client, bucket) ==
    IF Faulty("head_bucket") THEN faults["head_bucket"]
    ELSE IF bucket \notin DOMAIN buckets THEN "404"
    ELSE IF buckets[bucket].home # client THEN "301"
    ELSE "200"

\* _handle_get_object: the body, or no response (ClientError 404)
GetObject(bucket, key) ==
    IF /\ ~Faulty("get_object")
       /\ bucket \in DOMAIN buckets
       /\ key \in DOMAIN buckets[bucket].objects
    THEN [ok |-> TRUE, Body |-> buckets[bucket].objects[key]]
    ELSE [ok |-> FALSE, Body |-> << >>]

\* _handle_list_objects_v2 with MaxKeys=1: the Contents of the response
ListObjectsV2(bucket, prefix) ==
    IF bucket \notin DOMAIN buckets THEN {}
    ELSE {k \in DOMAIN buckets[bucket].objects : StartsWith(k, prefix)}

\* _handle_put_object on an existing bucket
PutObject(bkts, bucket, key, body) ==
    [bkts EXCEPT ![bucket].objects = (key :> body) @@ @]

\* _handle_create_bucket on a free name; the bucket lives where the
\* LocationConstraint says (the default region without one)
CreateBucket(bkts, bucket, location) ==
    (bucket :> [home |-> IF location = "" THEN "us-east-1" ELSE location,
                accel |-> FALSE,
                objects |-> EmptyObjects]) @@ bkts

\* _handle_put_bucket_accelerate_configuration, Status Enabled
PutAccelerate(bkts, bucket) == [bkts EXCEPT ![bucket].accel = TRUE]

(***************************************************************************)
(* ReferenceBucketManager helpers                                          *)
(***************************************************************************)
\* bucket_exists taking only a 404 answer for "does not exist"
bucket_exists_only_404(bucket) == HeadBucket(s3_client, bucket) # "404"

\* bucket_exists   manager.py:72-80: every ClientError is "False"
bucket_exists(bucket) == HeadBucket(s3_client, bucket) = "200"

\* read_bucket_version   manager.py:122-134
read_bucket_version(bucket) ==
    LET response == GetObject(bucket, MarkerKey)
    IN  IF ~response.ok THEN [none |-> TRUE, data |-> ""]
        ELSE [none |-> FALSE, data |-> DecodeStrip(response.Body)]

\* _prefix_exists   manager.py:361-367
prefix_exists(bucket, prefix) == ListObjectsV2(bucket, prefix) # {}

CopyOperation(prefix) ==
    [source_prefix |-> prefix, destination_prefix |-> prefix, include |-> TRUE]

MapSeq(s, Op(_)) == [i \in DOMAIN s |-> Op(s[i])]

\* _build_copy_plan with the b37 group planned before the hg38 group
build_copy_plan_b37_first(include_hg38, include_b37, include_giab) ==
    MapSeq(CORE_PREFIXES, CopyOperation)
        \o (IF include_b37 THEN MapSeq(B37_PREFIXES, CopyOperation) ELSE << >>)
        \o (IF include_hg38 THEN MapSeq(HG38_PREFIXES, CopyOperation) ELSE << >>)
        \o (IF include_giab THEN MapSeq(GIAB_PREFIXES, CopyOperation) ELSE << >>)

\* _build_copy_plan   manager.py:139-187
build_copy_plan(include_hg38, include_b37, include_giab) ==
    MapSeq(CORE_PREFIXES, CopyOperation)
        \o (IF include_hg38 THEN MapSeq(HG38_PREFIXES, CopyOperation) ELSE << >>)
        \o (IF include_b37 THEN MapSeq(B37_PREFIXES, CopyOperation) ELSE << >>)
        \o (IF include_giab THEN MapSeq(GIAB_PREFIXES, CopyOperation) ELSE << >>)


\* prefixes_to_check with the inclusion flags ignored
prefixes_to_check_all(include_hg38, include_b37, include_giab) ==
    CORE_PREFIXES \o HG38_PREFIXES \o B37_PREFIXES \o GIAB_PREFIXES

\* the prefixes verify_bucket checks   manager.py:339-345
prefixes_to_check(include_hg38, include_b37, include_giab) ==
    CORE_PREFIXES
        \o (IF include_hg38 THEN HG38_PREFIXES ELSE << >>)
        \o (IF include_b37 THEN B37_PREFIXES ELSE << >>)
        \o (IF include_giab THEN GIAB_PREFIXES ELSE << >>)

\* manager.py:331-337  the version issue, if any
version_issues(bucket_version, expected_version) ==
    IF bucket_version.none THEN << "missing version marker" >>
    ELSE IF bucket_version.data # expected_version
    THEN << "version mismatch (expected " \o expected_version
               \o ", found " \o bucket_version.data \o ")" >>
    ELSE << >>

\* the missing-objects loop stopping at the first prefix without objects
RECURSIVE prefix_issues_first_only(_, _)
prefix_issues_first_only(bucket, prefixes) ==
    IF prefixes = << >> THEN << >>
    ELSE IF ~prefix_exists(bucket, Head(prefixes))
    THEN << "missing objects under " \o Head(prefixes) >>
    ELSE prefix_issues_first_only(bucket, Tail(prefixes))

\* manager.py:347-349  one issue per prefix without objects, in order
RECURSIVE prefix_issues(_, _)
prefix_issues(bucket, prefixes) ==
    IF prefixes = << >> THEN << >>
    ELSE (IF ~prefix_exists(bucket, Head(prefixes))
          THEN << "missing objects under " \o Head(prefixes) >>
          ELSE << >>)
         \o prefix_issues(bucket, Tail(prefixes))

\* verify_bucket   manager.py:313-356: the calls it makes and how it ends
verify_bucket(bucket, expected_version, include_hg38, include_b37, include_giab) ==
    IF expected_version \notin DOMAIN SOURCE_BUCKET_BY_VERSION
    THEN [log |-> << >>,
          result |-> Raise("ValueError",
                           "Unsupported reference version: " \o expected_version)]
    ELSE IF ~bucket_exists(bucket)
    THEN [log |-> << S3Call("head_bucket", s3_client, bucket, "") >>,
          result |-> BucketVerificationError(
                         bucket, << "bucket (" \o bucket \o ") does not exist" >>)]
    ELSE LET prefixes == prefixes_to_check(include_hg38, include_b37, include_giab)
             issues == version_issues(read_bucket_version(bucket), expected_version)
                           \o prefix_issues(bucket, prefixes)
             list(prefix) == S3Call("list_objects_v2", s3_client, bucket, prefix)
             reads == << S3Call("head_bucket", s3_client, bucket, ""),
                         S3Call("get_object", s3_client, bucket, VERSION_INFO_KEY) >>
         IN  IF Faulty("list_objects_v2")
             THEN \* _prefix_exists lets the first listing's error through
                  [log |-> reads \o << list(prefixes[1]) >>,
                   result |-> Raise("ClientError", faults["list_objects_v2"])]
             ELSE [log |-> reads \o MapSeq(prefixes, list),
                   result |-> IF issues # << >>
                              THEN BucketVerificationError(bucket, issues)
                              ELSE Return("")]

\* clone_entry without the existence check of manager.py:275-276
clone_entry_no_exists_check(p) ==
    IF p.version \notin DOMAIN SOURCE_BUCKET_BY_VERSION
    THEN [pc |-> "done", log |-> << >>,
          result |-> Raise("ValueError",
                           "Unsupported reference version: " \o p.version)]
    ELSE [pc |-> "create", log |-> << >>, result |-> NoResult]

\* clone_entry with the existence check made before the version check
clone_entry_probe_first(p) ==
    LET bucket_name == BucketName(p.bucket_prefix, p.region)
        probe == S3Call("head_bucket", s3_client, bucket_name, "")
    IN  IF bucket_exists(bucket_name)
        THEN [pc |-> "done", log |-> << probe >>,
              result |-> Raise("ValueError",
                               "Bucket '" \o bucket_name \o "' already exists")]
        ELSE IF p.version \notin DOMAIN SOURCE_BUCKET_BY_VERSION
        THEN [pc |-> "done", log |-> << probe >>,
              result |-> Raise("ValueError",
                               "Unsupported reference version: " \o p.version)]
        ELSE [pc |-> "create", log |-> << probe >>, result |-> NoResult]

\* clone_reference_bucket up to its existence check   manager.py:268-276
clone_entry(p) ==
    IF p.version \notin DOMAIN SOURCE_BUCKET_BY_VERSION
    THEN [pc |-> "done", log |-> << >>,
          result |-> Raise("ValueError",
                           "Unsupported reference version: " \o p.version)]
    ELSE LET bucket_name == BucketName(p.bucket_prefix, p.region)
             probe == S3Call("head_bucket", s3_client, bucket_name, "")
         IN  IF bucket_exists(bucket_name)
             THEN [pc |-> "done", log |-> << probe >>,
                   result |-> Raise("ValueError",
                                    "Bucket '" \o bucket_name \o "' already exists")]
             ELSE [pc |-> "create", log |-> << probe >>, result |-> NoResult]

\* ensure_bucket leaving use_acceleration at clone_reference_bucket's default
forwarded_args_without_acceleration(p) ==
    [op |-> "clone", bucket |-> "", bucket_prefix |-> p.bucket_prefix,
     region |-> p.region, version |-> p.version, dry_run |-> p.dry_run,
     include_hg38 |-> p.include_hg38, include_b37 |-> p.include_b37,
     include_giab |-> p.include_giab, use_acceleration |-> FALSE,
     log_file |-> p.log_file, create_missing |-> TRUE]

\* the keyword arguments ensure_bucket passes to clone_reference_bucket
\* manager.py:404-414
forwarded_args(p) ==
    [op |-> "clone", bucket |-> "", bucket_prefix |-> p.bucket_prefix,
     region |-> p.region, version |-> p.version, dry_run |-> p.dry_run,
     include_hg38 |-> p.include_hg38, include_b37 |-> p.include_b37,
     include_giab |-> p.include_giab, use_acceleration |-> p.use_acceleration,
     log_file |-> p.log_file, create_missing |-> TRUE]

\* ensure_bucket cloning a missing bucket whatever create_missing says
ensure_entry_always_creates(p) ==
    LET bucket_name == BucketName(p.bucket_prefix, p.region)
        probe == S3Call("head_bucket", s3_client, bucket_name, "")
    IN  IF bucket_exists(bucket_name)
        THEN LET v == verify_bucket(bucket_name, p.version, p.include_hg38,
                                    p.include_b37, p.include_giab)
             IN  [pc |-> "done", log |-> << probe >> \o v.log,
                  result |-> IF v.result.kind = "return"
                             THEN Return(bucket_name) ELSE v.result]
        ELSE LET c == clone_entry(forwarded_args(p))
             IN  [pc |-> c.pc, log |-> << probe >> \o c.log, result |-> c.result]

\* ensure_bucket verifying with verify_bucket's default inclusion flags
ensure_entry_default_flags(p) ==
    LET bucket_name == BucketName(p.bucket_prefix, p.region)
        probe == S3Call("head_bucket", s3_client, bucket_name, "")
    IN  IF bucket_exists(bucket_name)
        THEN LET v == verify_bucket(bucket_name, p.version, TRUE, TRUE, TRUE)
             IN  [pc |-> "done", log |-> << probe >> \o v.log,
                  result |-> IF v.result.kind = "return"
                             THEN Return(bucket_name) ELSE v.result]
        ELSE IF ~p.create_missing
        THEN [pc |-> "done", log |-> << probe >>,
              result |-> BucketVerificationError(bucket_name,
                                                 << "bucket is missing" >>)]
        ELSE LET c == clone_entry(forwarded_args(p))
             IN  [pc |-> c.pc, log |-> << probe >> \o c.log, result |-> c.result]

\* ensure_bucket going on to write the marker and copy into a bucket
\* that failed its verification
ensure_entry_repairs(p) ==
    LET bucket_name == BucketName(p.bucket_prefix, p.region)
        probe == S3Call("head_bucket", s3_client, bucket_name, "")
    IN  IF bucket_exists(bucket_name)
        THEN LET v == verify_bucket(bucket_name, p.version, p.include_hg38,
                                    p.include_b37, p.include_giab)
             IN  IF v.result.kind = "BucketVerificationError"
                 THEN [pc |-> "marker", log |-> << probe >> \o v.log,
                       result |-> NoResult]
                 ELSE [pc |-> "done", log |-> << probe >> \o v.log,
                       result |-> IF v.result.kind = "return"
                                  THEN Return(bucket_name) ELSE v.result]
        ELSE IF ~p.create_missing
        THEN [pc |-> "done", log |-> << probe >>,
              result |-> BucketVerificationError(bucket_name,
                                                 << "bucket is missing" >>)]
        ELSE LET c == clone_entry(forwarded_args(p))
             IN  [pc |-> c.pc, log |-> << probe >> \o c.log, result |-> c.result]

\* ensure_bucket   manager.py:386-414, up to the existence check of the
\* clone it delegates to
ensure_entry(p) ==
    LET bucket_name == BucketName(p.bucket_prefix, p.region)
        probe == S3Call("head_bucket", s3_client, bucket_name, "")
    IN  IF bucket_exists(bucket_name)
        THEN LET v == verify_bucket(bucket_name, p.version, p.include_hg38,
                                    p.include_b37, p.include_giab)
             IN  [pc |-> "done", log |-> << probe >> \o v.log,
                  result |-> IF v.result.kind = "return"
                             THEN Return(bucket_name) ELSE v.result]
        ELSE IF ~p.create_missing
        THEN [pc |-> "done", log |-> << probe >>,
              result |-> BucketVerificationError(bucket_name,
                                                 << "bucket is missing" >>)]
        ELSE LET c == clone_entry(forwarded_args(p))
             IN  [pc |-> c.pc, log |-> << probe >> \o c.log, result |-> c.result]

(***************************************************************************)
(* Call parameters                                                         *)
(***************************************************************************)
CloneParams ==
    [op : {"clone"}, bucket : {""}, bucket_prefix : BucketPrefixes,
     region : Regions, version : InputVersions, dry_run : BOOLEAN,
     include_hg38 : BOOLEAN, include_b37 : BOOLEAN, include_giab : BOOLEAN,
     use_acceleration : BOOLEAN, log_file : LogFiles, create_missing : {TRUE}]

EnsureParams ==
    [op : {"ensure"}, bucket : {""}, bucket_prefix : BucketPrefixes,
     region : Regions, version : InputVersions, dry_run : BOOLEAN,
     include_hg38 : BOOLEAN, include_b37 : BOOLEAN, include_giab : BOOLEAN,
     use_acceleration : BOOLEAN, log_file : LogFiles, create_missing : BOOLEAN]

VerifyParams ==
    [op : {"verify"}, bucket : Names, bucket_prefix : {""},
     region : {""}, version : InputVersions, dry_run : {FALSE},
     include_hg38 : BOOLEAN, include_b37 : BOOLEAN, include_giab : BOOLEAN,
     use_acceleration : {FALSE}, log_file : {""}, create_missing : {FALSE}]

NoCall ==
    [op |-> "none", bucket |-> "", bucket_prefix |-> "", region |-> "",
     version |-> "", dry_run |-> FALSE, include_hg38 |-> FALSE,
     include_b37 |-> FALSE, include_giab |-> FALSE, use_acceleration |-> FALSE,
     log_file |-> "", create_missing |-> FALSE]

\* the bucket a call is about
Target(c) ==
    IF c.op = "verify" THEN c.bucket ELSE BucketName(c.bucket_prefix, c.region)

NoPrev == [op |-> "none", bucket |-> "", dry_run |-> FALSE, kind |-> "none"]

NoOther ==
    [call |-> NoCall, pc |-> "idle", idx |-> 0, log |-> << >>,
     result |-> NoResult, raced |-> FALSE]


(***************************************************************************)
(* The copy executor's command   manager.py:200-214                        *)
(***************************************************************************)
S3Uri(bucket, prefix) == "s3://" \o bucket \o "/" \o prefix

CopyCommand(source_bucket, destination_bucket, prefix, use_acceleration) ==
    [src |-> S3Uri(source_bucket, prefix),
     dst |-> S3Uri(destination_bucket, prefix),
     endpoint |-> IF use_acceleration
                  THEN "https://s3-accelerate.amazonaws.com" ELSE ""]

\* what the external tool answers: exit status 0 with something on stdout,
\* or a non-zero status with something on stderr
ReturnCodes == {0, 1}

ToolOutput(returncode, command) ==
    IF returncode = 0 THEN << "copy: " \o command.src \o " to " \o command.dst >>
    ELSE << "fatal error: " \o command.src >>

\* the objects of the public source bucket under a prefix
SourceKeys(prefix) == IF prefix \in AllPrefixes THEN {DataKey(prefix)} ELSE {}

\* a copy that makes the destination the mirror of the source prefix
CopyObjects_mirroring(bkts, bucket, prefix) ==
    [bkts EXCEPT ![bucket].objects = [k \in SourceKeys(prefix) |-> << "data" >>]]

\* aws s3 cp --recursive, exit status 0
CopyObjects(bkts, bucket, prefix) ==
    [bkts EXCEPT ![bucket].objects =
        [k \in SourceKeys(prefix) |-> << "data" >>] @@ @]

(***************************************************************************)
(* Init: a manager scoped to one region, and a storage service holding no  *)
(* bucket or one bucket, in some region, with or without a version marker  *)
(* and with all but a few of the catalog's prefixes populated.             *)
(***************************************************************************)
InitialMarkers ==
    { << >>,
      << MarkerKey, << DEFAULT_REFERENCE_VERSION >> >>,
      << MarkerKey, << DEFAULT_REFERENCE_VERSION, "\n" >> >>,
      << MarkerKey, << "0.6.0" >> >> }

Populated ==
    {AllPrefixes \ M : M \in {X \in SUBSET AllPrefixes : Cardinality(X) <= MaxMissing}}
        \cup {{}}

ObjectsOf(marker, populated) ==
    [k \in {DataKey(q) : q \in populated} |-> << "data" >>]
        @@ (IF marker = << >> THEN EmptyObjects ELSE (marker[1] :> marker[2]))

InitialBuckets ==
    {EmptyObjects}
        \cup {(n :> [home |-> h, accel |-> FALSE, objects |-> ObjectsOf(m, q)]) :
                 n \in Names, h \in Regions, m \in InitialMarkers, q \in Populated}

Init ==
    /\ region \in Regions
    /\ s3_client = region
    /\ client_requests = 0
    /\ buckets \in InitialBuckets
    /\ call = NoCall
    /\ pc = "idle"
    /\ idx = 0
    /\ log = << >>
    /\ log_written = << >>
    /\ result = NoResult
    /\ at_call = buckets
    /\ calls = 0
    /\ prev = NoPrev
    /\ clone_args = NoCall
    /\ faults = NoFaults
    /\ other = NoOther

(***************************************************************************)
(* The manager's mutating helpers: the storage after the helper, the calls *)
(* it made and the error it raised (NoResult when it returned).            *)
(***************************************************************************)
\* create_bucket without the dry_run test of manager.py:85-87
create_bucket_ignores_dry_run(bucket, rgn, dry_run) ==
    LET location == IF rgn # "us-east-1" THEN rgn ELSE ""
        create == S3Call("create_bucket", s3_client, bucket, location)
        accelerate == S3Call("put_bucket_accelerate_configuration",
                             s3_client, bucket, "Enabled")
    IN  IF bucket \in DOMAIN buckets
        THEN [buckets |-> buckets, log |-> << create >>,
              error |-> Raise("ClientError", "BucketAlreadyOwnedByYou")]
        ELSE [buckets |-> PutAccelerate(CreateBucket(buckets, bucket, location),
                                        bucket),
              log |-> << create, accelerate >>, error |-> NoResult]

\* create_bucket against a storage service that answers the creation of a
\* bucket the caller already owns with success
create_bucket_already_owned_ok(bucket, rgn, dry_run) ==
    LET location == IF rgn # "us-east-1" THEN rgn ELSE ""
        create == S3Call("create_bucket", s3_client, bucket, location)
        accelerate == S3Call("put_bucket_accelerate_configuration",
                             s3_client, bucket, "Enabled")
    IN  IF dry_run
        THEN [buckets |-> buckets, log |-> << >>, error |-> NoResult]
        ELSE IF bucket \in DOMAIN buckets
        THEN [buckets |-> PutAccelerate(buckets, bucket),
              log |-> << create, accelerate >>, error |-> NoResult]
        ELSE [buckets |-> PutAccelerate(CreateBucket(buckets, bucket, location),
                                        bucket),
              log |-> << create, accelerate >>, error |-> NoResult]

\* create_bucket without the acceleration call of manager.py:99-101
create_bucket_without_accelerate(bucket, rgn, dry_run) ==
    LET location == IF rgn # "us-east-1" THEN rgn ELSE ""
        create == S3Call("create_bucket", s3_client, bucket, location)
    IN  IF dry_run
        THEN [buckets |-> buckets, log |-> << >>, error |-> NoResult]
        ELSE IF Faulty("create_bucket")
        THEN [buckets |-> buckets, log |-> << create >>,
              error |-> Raise("ClientError", faults["create_bucket"])]
        ELSE IF bucket \in DOMAIN buckets
        THEN [buckets |-> buckets, log |-> << create >>,
              error |-> Raise("ClientError", "BucketAlreadyOwnedByYou")]
        ELSE [buckets |-> CreateBucket(buckets, bucket, location),
              log |-> << create >>, error |-> NoResult]

\* create_bucket   manager.py:82-101
create_bucket(bucket, rgn, dry_run) ==
    LET location == IF rgn # "us-east-1" THEN rgn ELSE ""
        create == S3Call("create_bucket", s3_client, bucket, location)
        accelerate == S3Call("put_bucket_accelerate_configuration",
                             s3_client, bucket, "Enabled")
    IN  IF dry_run
        THEN [buckets |-> buckets, log |-> << >>, error |-> NoResult]
        ELSE IF Faulty("create_bucket")
        THEN [buckets |-> buckets, log |-> << create >>,
              error |-> Raise("ClientError", faults["create_bucket"])]
        ELSE IF bucket \in DOMAIN buckets
        THEN [buckets |-> buckets, log |-> << create >>,
              error |-> Raise("ClientError", "BucketAlreadyOwnedByYou")]
        ELSE IF Faulty("put_bucket_accelerate_configuration")
        THEN [buckets |-> CreateBucket(buckets, bucket, location),
              log |-> << create, accelerate >>,
              error |-> Raise("ClientError",
                              faults["put_bucket_accelerate_configuration"])]
        ELSE [buckets |-> PutAccelerate(CreateBucket(buckets, bucket, location),
                                        bucket),
              log |-> << create, accelerate >>, error |-> NoResult]

\* write_version_file returning without the put_object of manager.py:116-120
write_version_file_without_put(bucket, version, dry_run) ==
    [buckets |-> buckets, log |-> << >>, error |-> NoResult]

\* write_version_file   manager.py:106-120
write_version_file(bucket, version, dry_run) ==
    LET put == S3Call("put_object", s3_client, bucket, VERSION_INFO_KEY)
    IN  IF dry_run
        THEN [buckets |-> buckets, log |-> << >>, error |-> NoResult]
        ELSE IF Faulty("put_object")
        THEN [buckets |-> buckets, log |-> << put >>,
              error |-> Raise("ClientError", faults["put_object"])]
        ELSE IF bucket \notin DOMAIN buckets
        THEN [buckets |-> buckets, log |-> << put >>,
              error |-> Raise("ClientError", "404")]
        ELSE [buckets |-> PutObject(buckets, bucket, MarkerKey, Encode(version)),
              log |-> << put >>, error |-> NoResult]

\* the lines _run_copy_command appends to the log file   manager.py:220-243
copy_log_lines(dry_run, log_file, command, returncode) ==
    IF dry_run \/ log_file = "" THEN << >>
    ELSE << "$ aws s3 cp " \o command.src \o " " \o command.dst >>
             \o ToolOutput(returncode, command)

\* _run_copy_command without the returncode test of manager.py:245-248
run_copy_command_ignores_returncode(source_bucket, destination_bucket, prefix, dry_run, use_acceleration, log_file, returncode) ==
    LET command == CopyCommand(source_bucket, destination_bucket, prefix,
                               use_acceleration)
        entry == [api |-> "run_copy_command", dry_run |-> dry_run,
                  command |-> command,
                  returncode |-> IF dry_run THEN 0 ELSE returncode]
    IN  [buckets |-> IF ~dry_run /\ returncode = 0
                     THEN CopyObjects(buckets, destination_bucket, prefix)
                     ELSE buckets,
         log |-> << entry >>,
         written |-> copy_log_lines(dry_run, log_file, command, returncode),
         error |-> NoResult]

\* _run_copy_command   manager.py:189-248; returncode is the tool's answer
run_copy_command(source_bucket, destination_bucket, prefix, dry_run, use_acceleration, log_file, returncode) ==
    LET command == CopyCommand(source_bucket, destination_bucket, prefix,
                               use_acceleration)
        entry == [api |-> "run_copy_command", dry_run |-> dry_run,
                  command |-> command,
                  returncode |-> IF dry_run THEN 0 ELSE returncode]
    IN  [buckets |-> IF ~dry_run /\ returncode = 0
                     THEN CopyObjects(buckets, destination_bucket, prefix)
                     ELSE buckets,
         log |-> << entry >>,
         written |-> copy_log_lines(dry_run, log_file, command, returncode),
         error |-> IF ~dry_run /\ returncode # 0
                   THEN Raise("RuntimeError",
                              "aws s3 cp for prefix '" \o prefix
                                  \o "' failed with code " \o ToString(returncode)
                                  \o ": "
                                  \o ToolOutput(returncode, command)[1])
                   ELSE NoResult]

(***************************************************************************)
(* Actions                                                                 *)
(***************************************************************************)
\* a call with parameters p begins and runs up to position e.pc; a is
\* the keyword arguments of the clone_reference_bucket it runs
Begin(p, e, a) ==
    /\ call' = p
    /\ clone_args' = (IF e.pc = "done" THEN NoCall ELSE a)
    /\ pc' = e.pc
    /\ log' = e.log
    /\ result' = e.result
    /\ idx' = 0
    /\ log_written' = << >>
    /\ at_call' = buckets
    /\ calls' = calls + 1
    /\ UNCHANGED << buckets, region, s3_client, client_requests, faults, other >>

\* clone_reference_bucket(**p)   manager.py:253-276
CallClone ==
    /\ pc = "idle"
    /\ \E p \in CloneParams : Begin(p, clone_entry(p), p)
    /\ UNCHANGED prev

\* verify_bucket(p.bucket, ...)   manager.py:313-356
CallVerify ==
    /\ pc = "idle"
    /\ \E p \in VerifyParams :
          LET v == verify_bucket(p.bucket, p.version, p.include_hg38,
                                 p.include_b37, p.include_giab)
          IN  Begin(p, [pc |-> "done", log |-> v.log, result |-> v.result], NoCall)
    /\ UNCHANGED prev

\* ensure_bucket(**p)   manager.py:370-414
CallEnsure ==
    /\ pc = "idle"
    /\ \E p \in EnsureParams : Begin(p, ensure_entry(p), forwarded_args(p))
    /\ UNCHANGED prev

\* self.create_bucket(bucket_name, region, dry_run=dry_run)   manager.py:279
CreateBucketStep ==
    /\ pc = "create"
    /\ LET r == create_bucket(Target(clone_args), clone_args.region, clone_args.dry_run)
       IN  /\ buckets' = r.buckets
           /\ log' = log \o r.log
           /\ result' = r.error
           /\ pc' = IF r.error = NoResult THEN "marker" ELSE "done"
    /\ UNCHANGED << region, s3_client, client_requests, call, idx, log_written,
                    at_call, calls, prev, clone_args, faults, other >>

\* the version marker, in real mode only   manager.py:287-292
WriteVersionStep ==
    /\ pc = "marker"
    /\ LET r == IF clone_args.dry_run
                THEN [buckets |-> buckets, log |-> << >>, error |-> NoResult]
                ELSE write_version_file(Target(clone_args), clone_args.version, FALSE)
       IN  /\ buckets' = r.buckets
           /\ log' = log \o r.log
           /\ result' = r.error
           /\ pc' = IF r.error = NoResult THEN "copy" ELSE "done"
           /\ idx' = IF r.error = NoResult THEN 1 ELSE idx
    /\ UNCHANGED << region, s3_client, client_requests, call, log_written,
                    at_call, calls, prev, clone_args, faults, other >>

\* one turn of the copy loop, and the return after its last turn
\* manager.py:294-311
CopyStep ==
    /\ pc = "copy"
    /\ LET bucket_name == Target(clone_args)
           plan == build_copy_plan(clone_args.include_hg38, clone_args.include_b37,
                                   clone_args.include_giab)
           operation == plan[idx]
       IN  \E returncode \in ReturnCodes :
           /\ clone_args.dry_run => returncode = 0
           /\ returncode = 0 => clone_args.dry_run \/ bucket_name \in DOMAIN buckets
           /\ LET r == run_copy_command(SOURCE_BUCKET_BY_VERSION[clone_args.version],
                                        bucket_name, operation.source_prefix,
                                        clone_args.dry_run, clone_args.use_acceleration,
                                        clone_args.log_file, returncode)
              IN  /\ buckets' = r.buckets
                  /\ log' = log \o r.log
                  /\ log_written' = log_written \o r.written
                  /\ IF r.error # NoResult
                     THEN pc' = "done" /\ result' = r.error /\ UNCHANGED idx
                     ELSE IF idx = Len(plan)
                     THEN pc' = "done" /\ result' = Return(bucket_name)
                                       /\ UNCHANGED idx
                     ELSE idx' = idx + 1 /\ UNCHANGED << pc, result >>
    /\ UNCHANGED << region, s3_client, client_requests, call, at_call, calls,
                    prev, clone_args, faults, other >>

Next ==
    \/ CallClone
    \/ CallVerify
    \/ CallEnsure
    \/ CreateBucketStep
    \/ WriteVersionStep
    \/ CopyStep

Spec == Init /\ [][Next]_vars


(***************************************************************************)
(* Two clone calls in a row with the same bucket_prefix and region: the    *)
(* second begins once the first has returned its bucket name.              *)
(***************************************************************************)
SecondClone ==
    /\ pc = "done"
    /\ calls = 1
    /\ call.op = "clone"
    /\ result.kind = "return"
    /\ \E p \in CloneParams :
          /\ p.bucket_prefix = call.bucket_prefix
          /\ p.region = call.region
          /\ Begin(p, clone_entry(p), p)
    /\ prev' = [op |-> call.op, bucket |-> Target(call),
                dry_run |-> call.dry_run, kind |-> result.kind]

\* no bucket, or one bucket holding the marker and every prefix
InitTwice ==
    /\ Init
    /\ \A n \in DOMAIN buckets :
          buckets[n].objects
              = ObjectsOf(<< MarkerKey, << DEFAULT_REFERENCE_VERSION >> >>,
                          AllPrefixes)

NextTwice ==
    \/ CallClone
    \/ SecondClone
    \/ CreateBucketStep
    \/ WriteVersionStep
    \/ CopyStep

SpecTwice == InitTwice /\ [][NextTwice]_vars

(***************************************************************************)
(* A sequence of calls on one manager: a call that has ended gives way to  *)
(* the next one, and the storage service may by then refuse, or accept     *)
(* again, the version-marker put.  prev keeps the first call that was not  *)
(* a dry run, created its bucket and then failed.                          *)
(***************************************************************************)
SeqCloneParams ==
    {p \in CloneParams :
        /\ ~p.use_acceleration
        /\ p.log_file = ""
        /\ ~p.include_b37
        /\ ~p.include_giab}

SeqEnsureParams ==
    {p \in EnsureParams :
        /\ ~p.use_acceleration
        /\ p.log_file = ""
        /\ ~p.include_b37
        /\ ~p.include_giab}

SeqVerifyParams ==
    {p \in VerifyParams : ~p.include_b37 /\ ~p.include_giab}

SeqFaultSets == {NoFaults, ("put_object" :> "AccessDenied")}

CloneInSequence ==
    /\ pc = "idle"
    /\ \E p \in SeqCloneParams : Begin(p, clone_entry(p), p)
    /\ UNCHANGED prev

VerifyInSequence ==
    /\ pc = "idle"
    /\ \E p \in SeqVerifyParams :
          LET v == verify_bucket(p.bucket, p.version, p.include_hg38,
                                 p.include_b37, p.include_giab)
          IN  Begin(p, [pc |-> "done", log |-> v.log, result |-> v.result], NoCall)
    /\ UNCHANGED prev

EnsureInSequence ==
    /\ pc = "idle"
    /\ \E p \in SeqEnsureParams : Begin(p, ensure_entry(p), forwarded_args(p))
    /\ UNCHANGED prev

\* the call has returned or raised; the caller may make another one
ReturnToCaller ==
    /\ pc = "done"
    /\ calls < MaxCalls
    /\ pc' = "idle"
    /\ call' = NoCall
    /\ clone_args' = NoCall
    /\ idx' = 0
    /\ log' = << >>
    /\ log_written' = << >>
    /\ result' = NoResult
    /\ at_call' = buckets
    /\ prev' = IF /\ prev = NoPrev
                  /\ Target(call) \in DOMAIN buckets \ DOMAIN at_call
                  /\ result.kind \in {"RuntimeError", "ClientError"}
               THEN [op |-> call.op, bucket |-> Target(call),
                     dry_run |-> call.dry_run, kind |-> result.kind]
               ELSE prev
    /\ faults' \in SeqFaultSets
    /\ UNCHANGED << buckets, region, s3_client, client_requests, calls, other >>

InitSeq ==
    /\ InitTwice
    /\ \A n \in DOMAIN buckets : buckets[n].home = region

NextSeq ==
    \/ CloneInSequence
    \/ VerifyInSequence
    \/ EnsureInSequence
    \/ CreateBucketStep
    \/ WriteVersionStep
    \/ CopyStep
    \/ ReturnToCaller

SpecSeq == InitSeq /\ [][NextSeq]_vars

(***************************************************************************)
(* Two managers in two processes clone for the same bucket_prefix and      *)
(* region against one storage service, neither as a dry run; the steps of  *)
(* the two calls interleave.  Both clients are scoped to the same region.  *)
(***************************************************************************)
RaceParams ==
    {p \in SeqCloneParams : ~p.dry_run /\ p.version \in DOMAIN SOURCE_BUCKET_BY_VERSION}

FirstClone ==
    /\ pc = "idle"
    /\ \E p \in RaceParams : Begin(p, clone_entry(p), p)
    /\ UNCHANGED prev

OtherUnchanged ==
    UNCHANGED << region, s3_client, client_requests, call, pc, idx, log,
                 log_written, result, at_call, calls, prev, clone_args, faults >>

\* the other manager's clone_reference_bucket up to its existence check
OtherClone ==
    /\ other.pc = "idle"
    /\ call.op = "clone"
    /\ \E p \in RaceParams :
          /\ p.bucket_prefix = call.bucket_prefix
          /\ p.region = call.region
          /\ LET e == clone_entry(p)
             IN  other' = [call |-> p, pc |-> e.pc, idx |-> 0, log |-> e.log,
                           result |-> e.result,
                           raced |-> pc = "create"
                                        /\ Target(p) \notin DOMAIN buckets]
    /\ UNCHANGED buckets
    /\ OtherUnchanged

OtherCreateBucketStep ==
    /\ other.pc = "create"
    /\ LET r == create_bucket(Target(other.call), other.call.region,
                              other.call.dry_run)
       IN  /\ buckets' = r.buckets
           /\ other' = [other EXCEPT
                            !.log = @ \o r.log,
                            !.result = r.error,
                            !.pc = IF r.error = NoResult THEN "marker" ELSE "done"]
    /\ OtherUnchanged

OtherWriteVersionStep ==
    /\ other.pc = "marker"
    /\ LET r == write_version_file(Target(other.call), other.call.version, FALSE)
       IN  /\ buckets' = r.buckets
           /\ other' = [other EXCEPT
                            !.log = @ \o r.log,
                            !.result = r.error,
                            !.pc = IF r.error = NoResult THEN "copy" ELSE "done",
                            !.idx = IF r.error = NoResult THEN 1 ELSE @]
    /\ OtherUnchanged

OtherCopyStep ==
    /\ other.pc = "copy"
    /\ LET c == other.call
           plan == build_copy_plan(c.include_hg38, c.include_b37, c.include_giab)
       IN  \E returncode \in ReturnCodes :
           LET r == run_copy_command(SOURCE_BUCKET_BY_VERSION[c.version],
                                     Target(c), plan[other.idx].source_prefix,
                                     c.dry_run, c.use_acceleration, c.log_file,
                                     returncode)
           IN  /\ buckets' = r.buckets
               /\ other' = [other EXCEPT
                                !.log = @ \o r.log,
                                !.result = IF r.error # NoResult THEN r.error
                                           ELSE IF other.idx = Len(plan)
                                           THEN Return(Target(c)) ELSE @,
                                !.pc = IF r.error # NoResult \/ other.idx = Len(plan)
                                       THEN "done" ELSE @,
                                !.idx = IF r.error # NoResult \/ other.idx = Len(plan)
                                        THEN @ ELSE @ + 1]
    /\ OtherUnchanged

InitRace ==
    /\ Init
    /\ buckets = EmptyObjects

NextRace ==
    \/ FirstClone
    \/ CreateBucketStep
    \/ WriteVersionStep
    \/ CopyStep
    \/ OtherClone
    \/ OtherCreateBucketStep
    \/ OtherWriteVersionStep
    \/ OtherCopyStep

SpecRace == InitRace /\ [][NextRace]_vars

(***************************************************************************)
(* One call against a storage service that answers one of its operations   *)
(* with a ClientError (a response queued on the botocore Stubber), or none: *)
(* no bucket, or one bucket that is empty or holds the marker and every    *)
(* prefix.                                                                 *)
(***************************************************************************)
FaultSets ==
    {NoFaults}
        \cup {("head_bucket" :> code) : code \in {"403", "SlowDown"}}
        \cup {(api :> "AccessDenied") :
                 api \in {"get_object", "list_objects_v2", "create_bucket",
                          "put_bucket_accelerate_configuration", "put_object"}}

InitFaults ==
    /\ region \in Regions
    /\ s3_client = region
    /\ client_requests = 0
    /\ buckets \in
          {EmptyObjects}
              \cup {(n :> [home |-> h, accel |-> FALSE, objects |-> o]) :
                       n \in Names, h \in Regions,
                       o \in {EmptyObjects,
                              ObjectsOf(<< MarkerKey, << DEFAULT_REFERENCE_VERSION >> >>,
                                        AllPrefixes)}}
    /\ call = NoCall
    /\ pc = "idle"
    /\ idx = 0
    /\ log = << >>
    /\ log_written = << >>
    /\ result = NoResult
    /\ at_call = buckets
    /\ calls = 0
    /\ prev = NoPrev
    /\ clone_args = NoCall
    /\ faults \in FaultSets
    /\ other = NoOther

SpecFaults == InitFaults /\ [][Next]_vars

(***************************************************************************)
(* Vocabulary of the properties                                            *)
(***************************************************************************)
Supported(version) == version \in DOMAIN SOURCE_BUCKET_BY_VERSION

UnsupportedVersionError(version) ==
    [kind |-> "ValueError",
     value |-> "Unsupported reference version: " \o version,
     issues |-> << >>]

\* a call that changes the storage service, or runs the external copy tool
Mutating(e) ==
    \/ e.api \in {"create_bucket", "put_bucket_accelerate_configuration",
                  "put_object"}
    \/ (e.api = "run_copy_command" /\ ~e.dry_run)

NoMutatingCall == \A i \in DOMAIN log : ~Mutating(log[i])

CopyCalls == SelectSeq(log, LAMBDA e : e.api = "run_copy_command")

\* when the call began, the bucket existed in the region the manager's
\* client is scoped to: the existence probe finds it
ProbeFinds(bucket) ==
    /\ bucket \in DOMAIN at_call
    /\ at_call[bucket].home = s3_client
    /\ ~Faulty("head_bucket")

\* the existence probe is answered with an error that is not a region
\* redirect: not found, permission denied, throttling
ProbeFails(bucket) == Faulty("head_bucket") \/ bucket \notin DOMAIN at_call

Probe(bucket) ==
    [api |-> "head_bucket", client |-> s3_client, bucket |-> bucket, key |-> ""]

\* the catalog in order, and the prefixes of the core group and of the
\* selected optional groups in that order
Catalog == CORE_PREFIXES \o HG38_PREFIXES \o B37_PREFIXES \o GIAB_PREFIXES

Selected(q, c) ==
    \/ q \in Range(CORE_PREFIXES)
    \/ (c.include_hg38 /\ q \in Range(HG38_PREFIXES))
    \/ (c.include_b37 /\ q \in Range(B37_PREFIXES))
    \/ (c.include_giab /\ q \in Range(GIAB_PREFIXES))

Required(c) == SelectSeq(Catalog, LAMBDA q : Selected(q, c))

HasObjectUnder(objects, q) == \E k \in DOMAIN objects : k[1] = q

\* the issues a bucket with these objects has for call c
ExpectedIssues(objects, c) ==
    LET missing == SelectSeq(Required(c), LAMBDA q : ~HasObjectUnder(objects, q))
        found == DecodeStrip(objects[MarkerKey])
    IN  (IF MarkerKey \notin DOMAIN objects THEN << "missing version marker" >>
         ELSE IF found # c.version
         THEN << "version mismatch (expected " \o c.version \o ", found "
                    \o found \o ")" >>
         ELSE << >>)
        \o [i \in 1..Len(missing) |-> "missing objects under " \o missing[i]]

VerificationFailure(bucket, issues) ==
    [kind |-> "BucketVerificationError", value |-> bucket, issues |-> issues]

\* the calls of a verify_bucket that found its bucket: the probe, the
\* marker read, one listing per required prefix
VerifyCalls(bucket, c) ==
    << [api |-> "head_bucket", client |-> s3_client, bucket |-> bucket,
        key |-> ""],
       [api |-> "get_object", client |-> s3_client, bucket |-> bucket,
        key |-> VERSION_INFO_KEY] >>
        \o [i \in 1..Len(Required(c)) |->
               [api |-> "list_objects_v2", client |-> s3_client,
                bucket |-> bucket, key |-> Required(c)[i]]]

(***************************************************************************)
(* C1  clone_reference_bucket and verify_bucket called with a version that *)
(* is not a key of SOURCE_BUCKET_BY_VERSION end at once with the           *)
(* unsupported-version error: no storage-service call (no probe, create,   *)
(* put, get or list), no copy invocation, nothing written, whatever the    *)
(* other parameters and the state of the buckets.                          *)
(***************************************************************************)
C1_UnsupportedVersionBeforeAnyCall ==
    (call.op \in {"clone", "verify"} /\ ~Supported(call.version))
        => /\ pc = "done"
           /\ result = UnsupportedVersionError(call.version)
           /\ log = << >>
           /\ log_written = << >>
           /\ buckets = at_call

\* a real-mode clone with an unsupported version on a free bucket name
C1_Witness ==
    /\ pc = "done"
    /\ call.op = "clone"
    /\ ~Supported(call.version)
    /\ ~call.dry_run
    /\ Target(call) \notin DOMAIN buckets
    /\ result.kind = "ValueError"

(***************************************************************************)
(* C2  ensure_bucket called with a version that is not a key of            *)
(* SOURCE_BUCKET_BY_VERSION ends with the unsupported-version error        *)
(* before any storage-service call (the existence probe included) and any  *)
(* copy call, whatever the bucket's state, create_missing and dry_run.     *)
(***************************************************************************)
C2_EnsureUnsupportedVersionBeforeAnyCall ==
    (call.op = "ensure" /\ ~Supported(call.version))
        => /\ pc = "done"
           /\ result = UnsupportedVersionError(call.version)
           /\ log = << >>

(***************************************************************************)
(* C3  When the existence probe through a client scoped to region A is     *)
(* answered with a redirect naming region B, bucket_exists requests        *)
(* exactly one client for region B from the session, retries the probe on  *)
(* it and returns its answer; afterwards the manager's client is the       *)
(* region-B client and its region is B, and the marker read and the prefix *)
(* listings of verify_bucket go through the region-B client.               *)
(***************************************************************************)
\* verify_bucket has ended and its first probe, through the client the
\* manager had, met a bucket living in another region
RedirectedVerify ==
    /\ pc = "done"
    /\ call.op = "verify"
    /\ Supported(call.version)
    /\ call.bucket \in DOMAIN at_call
    /\ log # << >>
    /\ log[1].api = "head_bucket"
    /\ at_call[call.bucket].home # log[1].client

C3_RedirectRescopesClient ==
    RedirectedVerify
        => LET B == at_call[call.bucket].home
           IN  /\ client_requests = 1
               /\ s3_client = B
               /\ region = B
               /\ Len(log) >= 3
               /\ log[2].api = "head_bucket"
               /\ \A i \in 2..Len(log) : log[i].client = B
               /\ \E i \in DOMAIN log : log[i].api = "get_object"
               /\ \E i \in DOMAIN log : log[i].api = "list_objects_v2"


(***************************************************************************)
(* C4  (as claimed) When clone_reference_bucket is called twice in a row   *)
(* with the same bucket_prefix and region and the first call returns, the  *)
(* second call fails with the bucket-already-exists error and makes no     *)
(* bucket creation, marker write or copy, whatever the other parameters    *)
(* of the two calls, dry_run included.  Stated here for the calls the      *)
(* claim is most plainly about: a supported version in the second call,    *)
(* and a manager whose client is scoped to the region of the clone.        *)
(***************************************************************************)
AlreadyExistsError(bucket) ==
    [kind |-> "ValueError",
     value |-> "Bucket '" \o bucket \o "' already exists",
     issues |-> << >>]

C4_SecondCloneAlwaysFails ==
    (calls = 2 /\ Supported(call.version) /\ s3_client = call.region)
        => /\ pc = "done"
           /\ result = AlreadyExistsError(Target(call))
           /\ NoMutatingCall

(***************************************************************************)
(* C4  (amended) When the first of the two calls is not a dry run and      *)
(* returns, the second call never overwrites: it creates no bucket, writes *)
(* no version marker and runs no copy, whatever its parameters; given a    *)
(* supported version and an existence probe that finds the bucket, it      *)
(* fails with the bucket-already-exists error right after the probe.       *)
(***************************************************************************)
C4_SecondCloneAfterRealClone ==
    (calls = 2 /\ ~prev.dry_run)
        => /\ buckets = at_call
           /\ log_written = << >>
           /\ \A i \in DOMAIN log :
                 /\ log[i].api \notin {"put_object",
                                       "put_bucket_accelerate_configuration"}
                 /\ log[i].api = "run_copy_command" => log[i].dry_run
           /\ (Supported(call.version) /\ ProbeFinds(Target(call)))
                 => /\ pc = "done"
                    /\ result = AlreadyExistsError(Target(call))
                    /\ Len(log) = 1
                    /\ log[1].api = "head_bucket"

\* a real-mode second call on the bucket the first real-mode call filled
C4_Witness ==
    /\ calls = 2
    /\ pc = "done"
    /\ ~prev.dry_run
    /\ prev.kind = "return"
    /\ ~call.dry_run
    /\ Target(call) \in DOMAIN buckets
    /\ MarkerKey \in DOMAIN buckets[Target(call)].objects
    /\ result = AlreadyExistsError(Target(call))


(***************************************************************************)
(* C5  A clone_reference_bucket or ensure_bucket call with dry_run=true    *)
(* performs no mutating action at any point: no bucket creation, no        *)
(* acceleration configuration, no marker put, no run of the external copy  *)
(* tool, nothing written to the log file; the buckets and their contents   *)
(* stay as they were when the call began.                                  *)
(***************************************************************************)
C5_DryRunMutatesNothing ==
    (call.op \in {"clone", "ensure"} /\ call.dry_run)
        => /\ buckets = at_call
           /\ log_written = << >>
           /\ NoMutatingCall

\* a dry-run clone with a log file that went through its whole plan
C5_Witness ==
    /\ pc = "done"
    /\ call.op = "clone"
    /\ call.dry_run
    /\ call.log_file # ""
    /\ result.kind = "return"
    /\ Len(CopyCalls) = Len(Catalog)

(***************************************************************************)
(* C6  A clone invokes the copy executor once per planned prefix, in plan  *)
(* order: the core prefixes, then hg38, b37 and giab for the flags that    *)
(* are set; a clone that returns has made len(CORE) plus the lengths of    *)
(* the selected groups invocations, each from the prefix in the source     *)
(* bucket to the same prefix in the destination, in dry-run and in real    *)
(* mode alike.                                                             *)
(***************************************************************************)
C6_CopiesFollowPlan ==
    call.op = "clone"
        => /\ Len(CopyCalls) <= Len(Required(call))
           /\ \A i \in DOMAIN CopyCalls :
                 /\ CopyCalls[i].command.src
                        = S3Uri(SOURCE_BUCKET_BY_VERSION[call.version],
                                Required(call)[i])
                 /\ CopyCalls[i].command.dst
                        = S3Uri(Target(call), Required(call)[i])
                 /\ CopyCalls[i].dry_run = call.dry_run
           /\ result.kind = "return"
                 => Len(CopyCalls)
                        = Len(CORE_PREFIXES)
                            + (IF call.include_hg38 THEN Len(HG38_PREFIXES) ELSE 0)
                            + (IF call.include_b37 THEN Len(B37_PREFIXES) ELSE 0)
                            + (IF call.include_giab THEN Len(GIAB_PREFIXES) ELSE 0)

\* a real-mode clone with hg38 off and b37 and giab on that returned
C6_Witness ==
    /\ pc = "done"
    /\ call.op = "clone"
    /\ ~call.dry_run
    /\ ~call.include_hg38
    /\ call.include_b37
    /\ call.include_giab
    /\ result.kind = "return"
    /\ Len(CopyCalls) = 8

(***************************************************************************)
(* C7  verify_bucket with a supported version, on a bucket its existence   *)
(* probe finds, returns without raising whenever the version read from     *)
(* the marker equals the expected version and every prefix of the core     *)
(* group and of the selected optional groups has an object; it lists no    *)
(* prefix of an unselected group, which may be empty.                      *)
(***************************************************************************)
C7_VerifySucceeds ==
    (/\ pc = "done"
     /\ call.op = "verify"
     /\ Supported(call.version)
     /\ ProbeFinds(call.bucket)
     /\ MarkerKey \in DOMAIN buckets[call.bucket].objects
     /\ DecodeStrip(buckets[call.bucket].objects[MarkerKey]) = call.version
     /\ \A i \in DOMAIN Required(call) :
           HasObjectUnder(buckets[call.bucket].objects, Required(call)[i]))
        => /\ result.kind = "return"
           /\ \A i \in DOMAIN log :
                 log[i].api = "list_objects_v2" => Selected(log[i].key, call)

\* verify_bucket passed a bucket whose unselected giab prefix is empty
C7_Witness ==
    /\ pc = "done"
    /\ call.op = "verify"
    /\ ~call.include_giab
    /\ call.include_hg38
    /\ call.bucket \in DOMAIN buckets
    /\ ~HasObjectUnder(buckets[call.bucket].objects, GIAB_PREFIXES[1])
    /\ result.kind = "return"

(***************************************************************************)
(* C8  verify_bucket with a supported version, on a bucket its existence   *)
(* probe finds, never stops at the first problem: it reads the marker and  *)
(* lists every prefix of core plus the selected groups, and if anything is *)
(* wrong raises one verification failure whose issues are, in order, at    *)
(* most one version issue (missing marker, or a mismatch naming the        *)
(* expected and the found version) and then one 'missing objects under'    *)
(* entry per required prefix without objects, in catalog order, none for a *)
(* populated prefix; with no issue it returns.                             *)
(***************************************************************************)
C8_VerifyAccumulatesIssues ==
    (/\ pc = "done"
     /\ call.op = "verify"
     /\ Supported(call.version)
     /\ ProbeFinds(call.bucket))
        => LET issues == ExpectedIssues(at_call[call.bucket].objects, call)
           IN  /\ log = VerifyCalls(call.bucket, call)
               /\ result = IF issues = << >> THEN Return("")
                           ELSE VerificationFailure(call.bucket, issues)

\* a failure carrying a version mismatch and two missing prefixes or more
C8_Witness ==
    /\ pc = "done"
    /\ call.op = "verify"
    /\ result.kind = "BucketVerificationError"
    /\ Len(result.issues) >= 3
    /\ result.issues[1] = "version mismatch (expected 0.7.131c, found 0.6.0)"
    /\ result.issues[2] = "missing objects under cluster_boot_config/"
    /\ ~call.include_b37

(***************************************************************************)
(* C9  ensure_bucket with create_missing=false, when its existence probe   *)
(* does not find the bucket, ends at once with a verification failure      *)
(* carrying the single issue 'bucket is missing': no bucket creation, no   *)
(* marker write, no copy invocation, for every dry_run and inclusion       *)
(* flags; the buckets stay as they were.                                   *)
(***************************************************************************)
C9_EnsureWithoutCreateFails ==
    (call.op = "ensure" /\ ~call.create_missing /\ ~ProbeFinds(Target(call)))
        => /\ pc = "done"
           /\ result = VerificationFailure(Target(call), << "bucket is missing" >>)
           /\ Len(log) = 1
           /\ log[1].api = "head_bucket"
           /\ log_written = << >>
           /\ buckets = at_call

\* a real-mode ensure_bucket without create_missing on a free bucket name
C9_Witness ==
    /\ pc = "done"
    /\ call.op = "ensure"
    /\ ~call.create_missing
    /\ ~call.dry_run
    /\ Supported(call.version)
    /\ Target(call) \notin DOMAIN buckets
    /\ result.kind = "BucketVerificationError"

(***************************************************************************)
(* C10  ensure_bucket on a bucket its existence probe finds is verify_     *)
(* bucket on the derived name with the same version and inclusion flags:   *)
(* after its own probe it makes verify_bucket's calls, returns the bucket  *)
(* name when verify_bucket would return and fails with verify_bucket's     *)
(* error otherwise; it makes no creation, marker-write or copy call and    *)
(* leaves the bucket as it was, for every dry_run and create_missing.      *)
(***************************************************************************)
C10_EnsureOnExistingIsVerify ==
    (call.op = "ensure" /\ ProbeFinds(Target(call)))
        => LET name == Target(call)
               issues == ExpectedIssues(at_call[name].objects, call)
               probe == [api |-> "head_bucket", client |-> s3_client,
                         bucket |-> name, key |-> ""]
           IN  /\ pc = "done"
               /\ buckets = at_call
               /\ log_written = << >>
               /\ IF ~Supported(call.version)
                  THEN /\ result = UnsupportedVersionError(call.version)
                       /\ log = << probe >>
                  ELSE /\ result = IF issues = << >> THEN Return(name)
                                   ELSE VerificationFailure(name, issues)
                       /\ log = << probe >> \o VerifyCalls(name, call)

\* a real-mode ensure_bucket with create_missing on a bucket without its
\* giab prefix, which it reports and does not repair
C10_Witness ==
    /\ pc = "done"
    /\ call.op = "ensure"
    /\ call.create_missing
    /\ ~call.dry_run
    /\ call.include_giab
    /\ ~call.include_hg38
    /\ ProbeFinds(Target(call))
    /\ result = VerificationFailure(Target(call),
                    << "missing objects under data/genomic_data/organism_reads/" >>)


(***************************************************************************)
(* C11  A clone_reference_bucket or ensure_bucket call with dry_run=true   *)
(* never ends with an I/O-class error (a storage-service error or a        *)
(* transfer failure), whatever the storage service answers and whatever    *)
(* the state of the target bucket.                                         *)
(***************************************************************************)
C11_DryRunNeverIOError ==
    (call.op \in {"clone", "ensure"} /\ call.dry_run)
        => result.kind \notin {"ClientError", "RuntimeError"}

(***************************************************************************)
(* C12  bucket_exists never raises: when the existence probe is answered   *)
(* with not found, permission denied or throttling, clone, verify and      *)
(* ensure go on exactly as for an absent bucket.  verify_bucket fails with *)
(* the single issue 'does not exist' after that one call; ensure_bucket    *)
(* without create_missing fails with 'bucket is missing'; clone (and       *)
(* ensure with create_missing) does not fail with bucket-already-exists    *)
(* and goes on to create the bucket; no call ends with the probe's error.  *)
(***************************************************************************)
C12_FailedProbeIsAbsentBucket ==
    (call.op # "none" /\ Supported(call.version) /\ ProbeFails(Target(call)))
        => /\ log # << >>
           /\ log[1] = Probe(Target(call))
           /\ result.kind = "ClientError" => Len(log) > 1
           /\ call.op = "verify"
                 => /\ pc = "done"
                    /\ log = << Probe(call.bucket) >>
                    /\ result = VerificationFailure(
                                    call.bucket,
                                    << "bucket (" \o call.bucket \o ") does not exist" >>)
           /\ (call.op = "ensure" /\ ~call.create_missing)
                 => /\ pc = "done"
                    /\ log = << Probe(Target(call)) >>
                    /\ result = VerificationFailure(Target(call),
                                                    << "bucket is missing" >>)
           /\ (call.op = "ensure" /\ call.create_missing)
                 => /\ Len(log) >= 2
                    /\ log[2] = Probe(Target(call))
                    /\ result # AlreadyExistsError(Target(call))
                    /\ (pc \notin {"create"} /\ ~call.dry_run)
                          => Len(log) >= 3 /\ log[3].api = "create_bucket"
           /\ call.op = "clone"
                 => /\ result # AlreadyExistsError(Target(call))
                    /\ (pc \notin {"create"} /\ ~call.dry_run)
                          => Len(log) >= 2 /\ log[2].api = "create_bucket"

\* a throttled probe of a bucket that is there, in the client's region
C12_Witness ==
    /\ pc = "done"
    /\ call.op = "verify"
    /\ Supported(call.version)
    /\ faults = ("head_bucket" :> "SlowDown")
    /\ call.bucket \in DOMAIN buckets
    /\ buckets[call.bucket].home = s3_client
    /\ result.kind = "BucketVerificationError"

(***************************************************************************)
(* C13  clone_reference_bucket returns exactly                             *)
(* "<bucket_prefix>-omics-analysis-<region>", with dry_run and without,    *)
(* and ensure_bucket returns that name on both of its non-failing paths;   *)
(* it is the bucket every storage call of the operation names and the      *)
(* destination of every copy.                                              *)
(***************************************************************************)
C13_ReturnsDerivedName ==
    call.op \in {"clone", "ensure"}
        => LET name == call.bucket_prefix \o "-omics-analysis-" \o call.region
           IN  /\ result.kind = "return" => result.value = name
               /\ \A i \in DOMAIN log :
                     IF log[i].api = "run_copy_command"
                     THEN \E q \in AllPrefixes :
                             log[i].command.dst = "s3://" \o name \o "/" \o q
                     ELSE log[i].bucket = name

\* a real-mode ensure_bucket that found no bucket, cloned and returned
C13_Witness ==
    /\ pc = "done"
    /\ call.op = "ensure"
    /\ call.bucket_prefix = "acme"
    /\ call.region = "us-west-2"
    /\ ~call.dry_run
    /\ result = Return("acme-omics-analysis-us-west-2")
    /\ "acme-omics-analysis-us-west-2" \in DOMAIN buckets \ DOMAIN at_call
    /\ CopyCalls # << >>

(***************************************************************************)
(* What a clone_reference_bucket with keyword arguments c that found no    *)
(* bucket shows of itself: lg is the calls it has made so far.             *)
(***************************************************************************)
CloneObserved(c, lg) ==
    LET name == BucketName(c.bucket_prefix, c.region)
        copies == SelectSeq(lg, LAMBDA e : e.api = "run_copy_command")
        storage == SelectSeq(lg, LAMBDA e : e.api # "run_copy_command")
        expected ==
            << Probe(name) >>
                \o (IF c.dry_run THEN << >>
                    ELSE << [api |-> "create_bucket", client |-> s3_client,
                             bucket |-> name,
                             key |-> IF c.region = "us-east-1" THEN ""
                                     ELSE c.region],
                            [api |-> "put_bucket_accelerate_configuration",
                             client |-> s3_client, bucket |-> name,
                             key |-> "Enabled"],
                            [api |-> "put_object", client |-> s3_client,
                             bucket |-> name, key |-> VERSION_INFO_KEY] >>)
    IN  IF ~Supported(c.version)
        THEN lg = << >> /\ result = UnsupportedVersionError(c.version)
        ELSE /\ Len(storage) <= Len(expected)
             /\ \A i \in DOMAIN storage : storage[i] = expected[i]
             /\ copies # << >> => Len(storage) = Len(expected)
             /\ Len(copies) <= Len(Required(c))
             /\ \A i \in DOMAIN copies :
                   /\ copies[i].dry_run = c.dry_run
                   /\ copies[i].command
                        = [src |-> S3Uri(SOURCE_BUCKET_BY_VERSION[c.version],
                                         Required(c)[i]),
                           dst |-> S3Uri(name, Required(c)[i]),
                           endpoint |-> IF c.use_acceleration
                                        THEN "https://s3-accelerate.amazonaws.com"
                                        ELSE ""]
                   /\ copies[i].returncode # 0 => i = Len(copies)
             /\ Len(log_written)
                   = IF c.dry_run \/ c.log_file = "" THEN 0 ELSE 2 * Len(copies)
             /\ name \in DOMAIN buckets
                   => /\ buckets[name].home = c.region
                      /\ MarkerKey \in DOMAIN buckets[name].objects
                            => buckets[name].objects[MarkerKey] = << c.version >>
                      /\ \A q \in AllPrefixes :
                            HasObjectUnder(buckets[name].objects, q)
                                <=> \E i \in DOMAIN copies :
                                       /\ Required(c)[i] = q
                                       /\ copies[i].returncode = 0
             /\ result.kind = "return"
                   => /\ result.value = name
                      /\ Len(copies) = Len(Required(c))
             /\ result.kind = "RuntimeError"
                   => /\ copies # << >>
                      /\ copies[Len(copies)].returncode # 0
             /\ result.kind \in {"none", "return", "RuntimeError"}

(***************************************************************************)
(* C14  ensure_bucket with create_missing=true on an absent bucket is      *)
(* clone_reference_bucket with the same bucket_prefix, region, version,    *)
(* dry_run, inclusion flags, use_acceleration and log_file: after its own  *)
(* existence probe it makes the calls, leaves the bucket and the log file  *)
(* and returns the name or fails as a clone with those arguments does.     *)
(***************************************************************************)
C14_EnsureOnAbsentIsClone ==
    /\ (call.op = "clone" /\ Target(call) \notin DOMAIN at_call)
          => CloneObserved(call, log)
    /\ (/\ call.op = "ensure"
        /\ call.create_missing
        /\ Target(call) \notin DOMAIN at_call)
          => /\ log # << >>
             /\ log[1] = Probe(Target(call))
             /\ CloneObserved(call, Tail(log))
             /\ pc # "done"
                   => \A f \in {"bucket_prefix", "region", "version", "dry_run",
                                "include_hg38", "include_b37", "include_giab",
                                "use_acceleration", "log_file"} :
                         clone_args[f] = call[f]

\* a real-mode ensure_bucket through the acceleration endpoint, with a log
\* file, that cloned three prefixes and failed on the fourth
C14_Witness ==
    /\ pc = "done"
    /\ call.op = "ensure"
    /\ call.create_missing
    /\ call.use_acceleration
    /\ call.log_file # ""
    /\ ~call.dry_run
    /\ Target(call) \notin DOMAIN at_call
    /\ Len(CopyCalls) = 4
    /\ result.kind = "RuntimeError"
    /\ Len(log_written) = 8

(***************************************************************************)
(* C15  A clone that is not a dry run makes its calls in the order         *)
(* existence probe, bucket creation, version-marker write, copies: the     *)
(* marker is put exactly once, before the first copy invocation, so        *)
(* whenever the copy loop is running or a copy has been invoked the        *)
(* destination bucket holds the marker with the requested version as its   *)
(* body, and read_bucket_version yields that version.                      *)
(***************************************************************************)
C15_MarkerBeforeCopies ==
    (call.op = "clone" /\ ~call.dry_run /\ (pc = "copy" \/ CopyCalls # << >>))
        => /\ Target(call) \in DOMAIN buckets
           /\ MarkerKey \in DOMAIN buckets[Target(call)].objects
           /\ buckets[Target(call)].objects[MarkerKey] = << call.version >>
           /\ read_bucket_version(Target(call))
                 = [none |-> FALSE, data |-> call.version]
           /\ Cardinality({i \in DOMAIN log : log[i].api = "put_object"}) = 1
           /\ \A i, j \in DOMAIN log :
                 \/ (log[i].api = "head_bucket" /\ log[j].api = "create_bucket")
                 \/ (log[i].api = "create_bucket" /\ log[j].api = "put_object")
                 \/ (log[i].api = "put_object" /\ log[j].api = "run_copy_command")
                 => i < j

\* the copy loop of a real-mode clone after its second copy
C15_Witness ==
    /\ pc = "copy"
    /\ call.op = "clone"
    /\ ~call.dry_run
    /\ Len(CopyCalls) = 2
    /\ idx = 3
    /\ buckets[Target(call)].objects[MarkerKey] = << DEFAULT_REFERENCE_VERSION >>

(***************************************************************************)
(* C16  When the k-th copy of a clone that is not a dry run exits          *)
(* non-zero, the clone ends at once with the transfer failure naming that  *)
(* prefix, the exit code and the tool's error text: the failed copy is the *)
(* last one invoked (no copy k+1..n, no retry), the error is that one      *)
(* failure, and the clone returns no bucket name.                          *)
(***************************************************************************)
C16_FirstCopyFailureEndsClone ==
    (call.op = "clone" /\ ~call.dry_run)
        => \A k \in DOMAIN CopyCalls :
              CopyCalls[k].returncode # 0
                  => /\ pc = "done"
                     /\ k = Len(CopyCalls)
                     /\ CopyCalls[k].command.src
                            = S3Uri(SOURCE_BUCKET_BY_VERSION[call.version],
                                    Required(call)[k])
                     /\ result
                            = [kind |-> "RuntimeError",
                               value |-> "aws s3 cp for prefix '"
                                            \o Required(call)[k]
                                            \o "' failed with code "
                                            \o ToString(CopyCalls[k].returncode)
                                            \o ": fatal error: "
                                            \o CopyCalls[k].command.src,
                               issues |-> << >>]

\* a clone with ten planned copies whose third copy exited with status 1
C16_Witness ==
    /\ pc = "done"
    /\ call.op = "clone"
    /\ ~call.dry_run
    /\ Len(Required(call)) = 10
    /\ Len(CopyCalls) = 3
    /\ CopyCalls[3].returncode = 1
    /\ result.kind = "RuntimeError"

(***************************************************************************)
(* C17  Across every sequence of clone, verify and ensure calls on one     *)
(* manager no bucket and no object is ever removed: the set of buckets and *)
(* the set of object keys of each bucket only grow.  A verify call, and an *)
(* ensure call on a bucket that exists, leave every bucket as it was; the  *)
(* only steps that change a bucket are those of a clone that is not a dry  *)
(* run.                                                                    *)
(***************************************************************************)
C17_NothingEverRemoved ==
    /\ [][/\ DOMAIN buckets \subseteq DOMAIN buckets'
          /\ \A b \in DOMAIN buckets :
                DOMAIN buckets[b].objects \subseteq DOMAIN buckets'[b].objects
          /\ buckets' # buckets
                => /\ clone_args.op = "clone"
                   /\ ~clone_args.dry_run
                   /\ call.op \in {"clone", "ensure"}]_vars
    /\ [](\/ call.op = "verify"
          \/ (call.op = "ensure" /\ Target(call) \in DOMAIN at_call)
             => buckets = at_call)

\* the third call of a sequence, a verify_bucket, with two buckets that
\* earlier calls of the sequence created and of which one was left
\* without a prefix
C17_Witness ==
    /\ calls = 3
    /\ pc = "done"
    /\ call.op = "verify"
    /\ Cardinality(DOMAIN buckets) = 2
    /\ prev # NoPrev
    /\ \A b \in DOMAIN buckets : MarkerKey \in DOMAIN buckets[b].objects

C19_FailedCloneBlocksBucketForever ==
    (/\ prev # NoPrev
     /\ call.op \in {"clone", "ensure"}
     /\ Target(call) = prev.bucket
     /\ Supported(call.version)
     /\ ProbeFinds(Target(call)))
        => /\ pc = "done"
           /\ CopyCalls = << >>
           /\ call.op = "clone" => result = AlreadyExistsError(Target(call))
           /\ call.op = "ensure" => result.kind = "BucketVerificationError"

(***************************************************************************)
(* C19 (amended)  Once a clone that is not a dry run has created its       *)
(* bucket and then failed, the bucket stays as the failed clone left it:   *)
(* no later call changes it or runs a real copy into it.  A later clone    *)
(* with a supported version whose probe finds the bucket fails with        *)
(* bucket-already-exists right after the probe; a later ensure whose probe *)
(* finds it only verifies, and fails with a verification failure exactly   *)
(* when the bucket lacks something that this call's own version and        *)
(* inclusion flags require, returning the name otherwise.                  *)
(***************************************************************************)
C19_FailedCloneBucketNeverRepaired ==
    (/\ prev # NoPrev
     /\ call.op \in {"clone", "ensure", "verify"})
        => /\ prev.bucket \in DOMAIN buckets
           /\ buckets[prev.bucket] = at_call[prev.bucket]
           /\ Target(call) = prev.bucket
                 => \A i \in DOMAIN log :
                       log[i].api = "run_copy_command" => log[i].dry_run
           /\ (/\ Target(call) = prev.bucket
               /\ Supported(call.version)
               /\ ProbeFinds(Target(call)))
                 => /\ pc = "done"
                    /\ CopyCalls = << >>
                    /\ call.op = "clone"
                          => /\ result = AlreadyExistsError(Target(call))
                             /\ log = << Probe(Target(call)) >>
                    /\ call.op = "ensure"
                          => LET issues == ExpectedIssues(
                                               at_call[Target(call)].objects, call)
                             IN  result = IF issues = << >>
                                          THEN Return(Target(call))
                                          ELSE VerificationFailure(Target(call),
                                                                   issues)

\* an ensure_bucket with create_missing, not a dry run, on the bucket that a
\* failed clone left without its hg38 prefixes: it reports them and copies
\* nothing
C19_Witness ==
    /\ prev # NoPrev
    /\ prev.kind = "RuntimeError"
    /\ pc = "done"
    /\ call.op = "ensure"
    /\ call.create_missing
    /\ ~call.dry_run
    /\ call.include_hg38
    /\ Target(call) = prev.bucket
    /\ result.kind = "BucketVerificationError"
    /\ Len(result.issues) = 2
    /\ CopyCalls = << >>


(***************************************************************************)
(* C20  When two clones that are not dry runs, for the same bucket_prefix  *)
(* and region, both run their existence probe before either creates the    *)
(* bucket, exactly one of them creates the bucket, writes the version      *)
(* marker and runs copies into it; the other one fails without writing     *)
(* anything, having made its probe and its creation request only: the      *)
(* request is answered with the storage service's bucket-already-exists    *)
(* error (BucketAlreadyOwnedByYou), which is the error the call ends with. *)
(***************************************************************************)
Wrote(lg) ==
    \E i \in DOMAIN lg :
        lg[i].api \in {"put_bucket_accelerate_configuration", "put_object",
                       "run_copy_command"}

====
